---------------------------- MODULE Spec2Model ----------------------------
(***************************************************************************)
(* Checkout orchestration and reconciliation of the dropship store.       *)
(*                                                                         *)
(* The repository holds three server programs:                            *)
(*   src/unnamed/part_000  server.js, Paystack (NGN cart) + OPay, SQLite   *)
(*   src/unnamed/part_001  server.js, Paystack (USD cart) + OPay, SQLite   *)
(*   src/ship.js           backend.js, Stripe Connect + Paystack, and a    *)
(*                         JSON file of placed orders                      *)
(* One run of the model is one run of one of them (variable program).     *)
(* Every inbound HTTP request is an element of the bag reqs; a handler     *)
(* advances from one await to the next in one step, and steps of          *)
(* different requests interleave freely, as the callbacks of Node's event *)
(* loop do. A statement a handler hands to the database is executed in a   *)
(* step of its own, outside the event loop; the handler that awaits it is  *)
(* resumed in a later step.                                                *)
(*                                                                         *)
(* Numbers that arrive in a request body (price, supplierCost) are held    *)
(* as integer hundredths: the JavaScript number 10.00 is 1000, 19.99 is    *)
(* 1999. Times are milliseconds since the start of the run.                *)
(***************************************************************************)
EXTENDS Integers, Sequences, FiniteSets, Bags, TLC

VARIABLES
    program,     \* which of the three server files is running
    env,         \* process.env: the configuration read by the handlers
    db,          \* server.js: the variable db, undefined until open() resolves
    now,         \* the wall clock, in ms (Date.now())
    orders,      \* the rows of the SQLite table orders, in rowid order
    sqlite_sequence, \* the last id the table orders handed out (AUTOINCREMENT)
    ordersFile,  \* the array held in orders.json (ship.js)
    reqs,        \* the HTTP requests: inputs, position, locals, response
    calc         \* a call of the helpers on its own: functions to apply, value

vars == <<program, env, db, now, orders, sqlite_sequence, ordersFile, reqs, calc>>

----------------------------------------------------------------------------
(* Bounds of the model *)

\* number of HTTP requests of one run (all may be in flight together)
MaxReqs == 2
\* the largest and (negated) the smallest whole amount handed to toCents
MaxUnits == 1005
MaxBelow == 3

----------------------------------------------------------------------------
(* Values *)

\* SQL NULL, null and undefined
Null == "NULL"
\* CURRENT_TIMESTAMP has a resolution of one second
MsPerSec == 1000
\* a column that holds SQL NULL (processed_at of a fresh row)
NullTime == -1

\* let db: undefined while the module loads and until the awaited open() of
\* the start-up block resolves, then the handle of dropship.db. The block
\* hands CREATE TABLE IF NOT EXISTS orders to the handle in the turn that
\* assigns it, ahead of every statement of a handler.
Undefined == "undefined"
Database == "dropship.db"

\* the connected account id in SUPPLIER_STRIPE_ACCOUNT
SupplierAccount == "acct_supplier"

\* process.env without STRIPE_WEBHOOK_SECRET, SUPPLIER_API_URL/_KEY and
\* SUPPLIER_STRIPE_ACCOUNT
NoEnv == [webhookSecret |-> FALSE, supplierApi |-> FALSE, supplierAccount |-> Null]
\* the configurations of backend.js: nothing set, or one of the three set
ShipEnvs ==
    {NoEnv, [NoEnv EXCEPT !.webhookSecret = TRUE], [NoEnv EXCEPT !.supplierApi = TRUE],
     [NoEnv EXCEPT !.supplierAccount = SupplierAccount]}

Programs == {"part_000", "part_001", "ship.js"}
ServerPrograms == {"part_000", "part_001"}

\* a reference absent from the query string or the body
NoRef == <<>>
\* references issued by the Paystack gateway
PaystackRefs == {<<"ps_ref_", 1>>, <<"ps_ref_", 2>>}
\* "opay_ref_" + Date.now()
OpayRef(t) == <<"opay_ref_", t>>
\* "o" + Date.now()
LocalOrderId(t) == <<"o", t>>
NoLocalOrderId == <<>>
\* identifiers of payment intents
IntentIds == {<<"pi_", 1>>}

NoCustomer ==
    [present |-> FALSE, name |-> "", email |-> "", phone |-> "", address |-> "",
     state |-> ""]
Ada ==
    [present |-> TRUE, name |-> "Ada", email |-> "ada@example.com",
     phone |-> "+2348030000000", address |-> "1 Marina Road", state |-> "Abuja"]
\* server.js reads the customer only for the snapshot and the shipping fee
ServerCustomers == {Ada}
\* backend.js refuses a checkout without customer.email
ShipCustomers == {NoCustomer, Ada}

Item(p, c, q) == [price |-> p, supplierCost |-> c, quantity |-> q]
CartMissing == [shape |-> "missing", items |-> <<>>]
CartNotList == [shape |-> "object", items |-> <<>>]
CartEmpty == [shape |-> "list", items |-> <<>>]
\* price 10.00, supplierCost 6.00, quantity 2
CartProfit == [shape |-> "list", items |-> <<Item(1000, 600, 2)>>]
\* price 1.00, supplierCost 2.00, quantity 1: the supplier share exceeds the total
CartLoss == [shape |-> "list", items |-> <<Item(100, 200, 1)>>]
Carts == {CartMissing, CartNotList, CartEmpty, CartProfit, CartLoss}

\* the instants (ms) of this run at which a handler may read the clock: one
\* in one second, one in the next
Times == {1000, 2000}
StartTime == CHOOSE t \in Times : \A u \in Times : t <= u
\* the instant of an earlier run of the server, whose rows the database file
\* still holds
PriorTime == StartTime - 1000

\* USD -> NGN rates the rate service may answer with
\* (a float; written in hundredths: 1534.27)
Rates == {153427}

----------------------------------------------------------------------------
(* Helpers *)

\* A JavaScript value: the number h/100, or a value that is no finite number
Num(h) == [t |-> "number", h |-> h]
NaN == [t |-> "NaN", h |-> 0]
Infinity == [t |-> "Infinity", h |-> 0]
\* what a property inherited from Object.prototype holds: a method, or for
\* __proto__ the prototype object
Inherited(key) == [t |-> IF key = "__proto__" THEN "object" ELSE "function", h |-> 0]

\* mutant: amounts above 100 are taken for cents
toCentsLowThreshold(value) ==
    IF value.t # "number" THEN 0
    ELSE IF value.h % 100 = 0 /\ value.h \div 100 > 100
    THEN value.h \div 100
    ELSE value.h

\* mutant: the comparison with 1000 is not strict
toCentsInclusive(value) ==
    IF value.t # "number" THEN 0
    ELSE IF value.h % 100 = 0 /\ value.h \div 100 >= 1000
    THEN value.h \div 100
    ELSE value.h

\* toCents(value), n = Number(value): 0 unless n is finite; n itself when n is
\* an integer above 1000; Math.round(n * 100) otherwise. The result is an
\* integer, given as such.
toCents(value) ==
    IF value.t # "number" THEN 0
    ELSE IF value.h % 100 = 0 /\ value.h \div 100 > 1000
    THEN value.h \div 100
    ELSE value.h

\* fromCents(cents): the number (cents || 0) / 100
fromCents(cents) == Num(cents)

SHIPPING_FEES ==
    [Lagos |-> 2000, Abuja |-> 2500, Rivers |-> 3000, Kano |-> 2800,
     Kaduna |-> 2500, Oyo |-> 2200, Ogun |-> 2000, Enugu |-> 2700,
     Anambra |-> 2700, default |-> 3500]

\* the names every object inherits from Object.prototype
\* (Object.getOwnPropertyNames(Object.prototype))
ObjectPrototypeKeys ==
    {"constructor", "toString", "toLocaleString", "valueOf", "hasOwnProperty",
     "isPrototypeOf", "propertyIsEnumerable", "__proto__",
     "__defineGetter__", "__defineSetter__", "__lookupGetter__", "__lookupSetter__"}

\* SHIPPING_FEES[state] || SHIPPING_FEES.default: the lookup finds own and
\* inherited properties, and what it finds is returned when it is truthy
getShippingFee(state) ==
    IF state \in DOMAIN SHIPPING_FEES THEN Num(100 * SHIPPING_FEES[state])
    ELSE IF state \in ObjectPrototypeKeys THEN Inherited(state)
    ELSE Num(100 * SHIPPING_FEES["default"])

\* !Array.isArray(cartItems) || cartItems.length === 0
CartRejected(cart) == cart.shape # "list" \/ Len(cart.items) = 0

\* parseInt(it.quantity || 1, 10)
Qty(it) == IF it.quantity = 0 THEN 1 ELSE it.quantity

RECURSIVE SumSeq(_)
SumSeq(s) == IF s = <<>> THEN 0 ELSE Head(s) + SumSeq(Tail(s))

\* sum of toCents(price) * qty, in USD cents
UsdTotal(cart) ==
    SumSeq([i \in DOMAIN cart.items |->
              toCents(Num(cart.items[i].price)) * Qty(cart.items[i])])
\* sum of toCents(supplierCost || 0) * qty, in USD cents
UsdSupplierTotal(cart) ==
    SumSeq([i \in DOMAIN cart.items |->
              toCents(Num(cart.items[i].supplierCost)) * Qty(cart.items[i])])
\* part_000 Paystack: Math.round((sum of price * qty + shippingFee) * 100).
\* A shipping fee that is no number (an inherited function or object) turns
\* the sum into a string, and Math.round of it gives NaN.
NgnTotalKobo(cart, customer) ==
    LET shippingFee == getShippingFee(customer.state)
    IN  IF shippingFee.t = "number"
        THEN SumSeq([i \in DOMAIN cart.items |->
                       cart.items[i].price * Qty(cart.items[i])]) + shippingFee.h
        ELSE NaN

\* JavaScript's numbers are IEEE 754 doubles. Where the code uses a product
\* or a sum unrounded, the arithmetic is done here as the machine does it:
\* on naturals written as sequences of 15-bit limbs, least significant
\* first, the result of each operation rounded to 53 significant bits, ties
\* to even.
LimbBits == 15
LimbBase == 2 ^ LimbBits

RECURSIVE NatLimbs(_)
NatLimbs(n) == IF n = 0 THEN <<>> ELSE <<n % LimbBase>> \o NatLimbs(n \div LimbBase)

RECURSIVE LimbsNat(_)
LimbsNat(a) == IF a = <<>> THEN 0 ELSE Head(a) + LimbBase * LimbsNat(Tail(a))

RECURSIVE TrimLimbs(_)
TrimLimbs(a) ==
    IF a = <<>> THEN <<>>
    ELSE IF a[Len(a)] = 0 THEN TrimLimbs(SubSeq(a, 1, Len(a) - 1))
    ELSE a

RECURSIVE AddLimbs(_, _, _)
AddLimbs(a, b, carry) ==
    IF a = <<>> /\ b = <<>> THEN (IF carry = 0 THEN <<>> ELSE <<carry>>)
    ELSE LET x == IF a = <<>> THEN 0 ELSE Head(a)
             y == IF b = <<>> THEN 0 ELSE Head(b)
             ta == IF a = <<>> THEN <<>> ELSE Tail(a)
             tb == IF b = <<>> THEN <<>> ELSE Tail(b)
         IN  <<(x + y + carry) % LimbBase>>
                \o AddLimbs(ta, tb, (x + y + carry) \div LimbBase)

\* a - b for a >= b
RECURSIVE SubLimbs(_, _, _)
SubLimbs(a, b, borrow) ==
    IF a = <<>> THEN <<>>
    ELSE LET y == IF b = <<>> THEN 0 ELSE Head(b)
             tb == IF b = <<>> THEN <<>> ELSE Tail(b)
             d == Head(a) - y - borrow
         IN  <<d % LimbBase>> \o SubLimbs(Tail(a), tb, IF d < 0 THEN 1 ELSE 0)

\* a < b, for sequences without leading zero limbs
RECURSIVE LessLimbs(_, _)
LessLimbs(a, b) ==
    IF Len(a) # Len(b) THEN Len(a) < Len(b)
    ELSE IF a = <<>> THEN FALSE
    ELSE IF a[Len(a)] # b[Len(b)] THEN a[Len(a)] < b[Len(b)]
    ELSE LessLimbs(TrimLimbs(SubSeq(a, 1, Len(a) - 1)),
                   TrimLimbs(SubSeq(b, 1, Len(b) - 1)))

\* a * k + carry for a natural k below the limb base
RECURSIVE TimesSmall(_, _, _)
TimesSmall(a, k, carry) ==
    IF a = <<>> THEN (IF carry = 0 THEN <<>> ELSE <<carry>>)
    ELSE <<(Head(a) * k + carry) % LimbBase>>
            \o TimesSmall(Tail(a), k, (Head(a) * k + carry) \div LimbBase)

RECURSIVE TimesLimbs(_, _)
TimesLimbs(a, b) ==
    IF a = <<>> \/ b = <<>> THEN <<>>
    ELSE AddLimbs(TrimLimbs(TimesSmall(a, Head(b), 0)),
                  IF TimesLimbs(a, Tail(b)) = <<>> THEN <<>>
                  ELSE <<0>> \o TimesLimbs(a, Tail(b)),
                  0)

\* quotient and remainder of the division by a natural d below the limb base
RECURSIVE DivSmall(_, _)
DivSmall(a, d) ==
    IF a = <<>> THEN [q |-> <<>>, r |-> 0]
    ELSE LET hi == DivSmall(Tail(a), d)
             x == hi.r * LimbBase + Head(a)
         IN  [q |-> <<x \div d>> \o hi.q, r |-> x % d]

\* a * 2^n
ShiftLeft(a, n) ==
    IF a = <<>> THEN <<>>
    ELSE [i \in 1 .. n \div LimbBits |-> 0]
            \o TrimLimbs(TimesSmall(a, 2 ^ (n % LimbBits), 0))

\* a \div 2^n
ShiftRight(a, n) ==
    IF n \div LimbBits >= Len(a) THEN <<>>
    ELSE TrimLimbs(DivSmall(SubSeq(a, n \div LimbBits + 1, Len(a)),
                            2 ^ (n % LimbBits)).q)

\* bit i of a, bit 1 the least significant
BitOf(a, i) ==
    IF (i - 1) \div LimbBits >= Len(a) THEN 0
    ELSE (a[(i - 1) \div LimbBits + 1] \div 2 ^ ((i - 1) % LimbBits)) % 2

\* the number of bits of a
BitLength(a) ==
    IF a = <<>> THEN 0
    ELSE LimbBits * (Len(a) - 1)
           + CHOOSE k \in 1 .. LimbBits : 2 ^ (k - 1) <= a[Len(a)] /\ a[Len(a)] < 2 ^ k

\* the 53 leading bits of a, rounded to nearest, ties to even; sticky says
\* that the exact value has more below the bits of a; sh is the number of
\* bits dropped
Round53(a, sticky) ==
    IF BitLength(a) <= 53 THEN [m |-> a, sh |-> 0]
    ELSE LET r == BitLength(a) - 53
             hi == ShiftRight(a, r)
             st == sticky \/ \E i \in 1 .. r - 1 : BitOf(a, i) = 1
             up == BitOf(a, r) = 1 /\ (st \/ BitOf(hi, 1) = 1)
             m1 == IF up THEN AddLimbs(hi, <<1>>, 0) ELSE hi
         IN  IF BitLength(m1) = 54 THEN [m |-> ShiftRight(m1, 1), sh |-> r + 1]
             ELSE [m |-> m1, sh |-> r]

\* a double: s * m * 2^e, m a natural below 2^53, <<>> for zero
Double(s, m, e) == [s |-> s, m |-> m, e |-> e]

\* the double of an integer below 2^53
DoubleOfInt(n) == Double(IF n < 0 THEN -1 ELSE 1, NatLimbs(IF n < 0 THEN -n ELSE n), 0)

\* the double a decimal with two places is read as: the one nearest to h/100
DoubleOfHundredths(h) ==
    LET d == DivSmall(ShiftLeft(NatLimbs(IF h < 0 THEN -h ELSE h), 64), 100)
        rd == Round53(TrimLimbs(d.q), d.r # 0)
    IN  Double(IF h < 0 THEN -1 ELSE 1, rd.m, rd.sh - 64)

\* x * y
DoubleTimes(x, y) ==
    LET rd == Round53(TrimLimbs(TimesLimbs(x.m, y.m)), FALSE)
    IN  Double(x.s * y.s, rd.m, x.e + y.e + rd.sh)

\* x + y
DoublePlus(x, y) ==
    IF x.m = <<>> THEN y
    ELSE IF y.m = <<>> THEN x
    ELSE LET e0 == IF x.e < y.e THEN x.e ELSE y.e
             a == ShiftLeft(x.m, x.e - e0)
             b == ShiftLeft(y.m, y.e - e0)
             sum == IF x.s = y.s THEN Double(x.s, TrimLimbs(AddLimbs(a, b, 0)), e0)
                    ELSE IF LessLimbs(a, b) THEN Double(y.s, TrimLimbs(SubLimbs(b, a, 0)), e0)
                    ELSE Double(x.s, TrimLimbs(SubLimbs(a, b, 0)), e0)
             rd == Round53(sum.m, FALSE)
         IN  Double(sum.s, rd.m, e0 + rd.sh)

\* the value of a double as the model writes numbers: the integer it is, or,
\* when it is no integer, the double with the integer below its magnitude
NumberOfDouble(x) ==
    IF x.m = <<>> THEN 0
    ELSE IF x.e >= 0 THEN x.s * LimbsNat(ShiftLeft(x.m, x.e))
    ELSE IF \A i \in 1 .. -x.e : BitOf(x.m, i) = 0
    THEN x.s * LimbsNat(ShiftRight(x.m, -x.e))
    ELSE [t |-> "double", s |-> x.s, floor |-> LimbsNat(ShiftRight(x.m, -x.e)),
          m |-> x.m, e |-> x.e]

\* Math.round(x): the integer nearest to x, a half rounded towards +Infinity
MathRound(x) ==
    IF x.m = <<>> THEN 0
    ELSE IF x.e >= 0 THEN x.s * LimbsNat(ShiftLeft(x.m, x.e))
    ELSE LET floor == LimbsNat(ShiftRight(x.m, -x.e))
             half == BitOf(x.m, -x.e) = 1
             below == \E i \in 1 .. (-x.e - 1) : BitOf(x.m, i) = 1
         IN  IF x.s > 0 THEN floor + (IF half THEN 1 ELSE 0)
             ELSE -(floor + (IF half /\ below THEN 1 ELSE 0))

\* Math.round(fromCents(usdTotal) * usdToNgn * 100), the rate in hundredths
KoboFromUsd(usdTotal, rate) ==
    MathRound(DoubleTimes(DoubleTimes(DoubleOfHundredths(usdTotal),
                                      DoubleOfHundredths(rate)),
                          DoubleOfInt(100)))

\* totalKobo for the cart totals and the rates of the runs, worked out once
RECURSIVE TotalKoboTable(_)
TotalKoboTable(pairs) ==
    IF pairs = {} THEN <<>>
    ELSE LET p == CHOOSE q \in pairs : TRUE
         IN  (p :> KoboFromUsd(p[1], p[2])) @@ TotalKoboTable(pairs \ {p})
TotalKoboOf ==
    TotalKoboTable({UsdTotal(c) : c \in {d \in Carts : d.shape = "list"}}
                       \X ({0} \cup Rates))

\* totalKobo as a handler computes it
TotalKobo(usdTotal, rate) == TotalKoboOf[<<usdTotal, rate>>]

\* CURRENT_TIMESTAMP
CurrentTimestamp(t) == t \div MsPerSec

----------------------------------------------------------------------------
(* The order ledger (SQLite table orders) *)

RowsOf(tbl, paymentId) == {i \in DOMAIN tbl : tbl[i].payment_id = paymentId}

\* Number.isNaN(v), for a value of any kind
IsNaN(v) == ToString(v) = ToString(NaN)

\* a number bound to a parameter of a statement: NaN is stored as NULL
Bind(v) == IF IsNaN(v) THEN Null ELSE v

\* the row createDraftOrder binds to its INSERT; id is AUTOINCREMENT, one
\* more than the last id the table has handed out (sqlite_sequence); the
\* INSERT of part_001 names no phone and no address column
DraftRow(seq, prog, localId, paymentId, cart, customer, usdTotalCents, koboTotal, supplierTotal, profitCents, t) ==
    [id |-> seq + 1,
     local_order_id |-> localId,
     payment_id |-> paymentId,
     status |-> "pending",
     customer_name |-> customer.name,
     customer_email |-> customer.email,
     customer_phone |-> IF prog = "part_000" THEN customer.phone ELSE Null,
     customer_address |-> IF prog = "part_000" THEN customer.address ELSE Null,
     items_json |-> cart.items,
     total_cents_usd |-> Bind(usdTotalCents),
     total_kobo_ngn |-> Bind(koboTotal),
     supplier_share_cents |-> Bind(supplierTotal),
     profit_cents |-> Bind(profitCents),
     supplier_response |-> Null,
     created_at |-> CurrentTimestamp(t),
     processed_at |-> NullTime]

\* mutant: INSERT OR REPLACE, the conflicting row is deleted first
InsertOrReplace(tbl, row) ==
    Append(SelectSeq(tbl, LAMBDA x : x.payment_id # row.payment_id), row)

\* INSERT OR IGNORE INTO orders ...: payment_id is UNIQUE, a conflicting row
\* is dropped without an error; rows without a payment_id (NULL) never
\* conflict
InsertOrIgnore(tbl, row) ==
    IF row.payment_id # NoRef /\ RowsOf(tbl, row.payment_id) # {}
    THEN tbl
    ELSE Append(tbl, row)

\* mutant: the UPDATE also stamps created_at
MarkPaidStampsCreatedAt(tbl, paymentId, t) ==
    [i \in DOMAIN tbl |->
        IF tbl[i].payment_id = paymentId
        THEN [tbl[i] EXCEPT !.status = "paid", !.processed_at = CurrentTimestamp(t),
                            !.created_at = CurrentTimestamp(t)]
        ELSE tbl[i]]

\* mutant: an upsert, a reference without a row gets a paid row
MarkPaidUpsert(tbl, paymentId, t) ==
    IF RowsOf(tbl, paymentId) = {}
    THEN Append(tbl, [DraftRow(Len(tbl), "part_000", NoLocalOrderId, paymentId, CartEmpty,
                               NoCustomer, 0, 0, 0, 0, t)
                        EXCEPT !.status = "paid", !.processed_at = CurrentTimestamp(t)])
    ELSE [i \in DOMAIN tbl |->
            IF tbl[i].payment_id = paymentId
            THEN [tbl[i] EXCEPT !.status = "paid", !.processed_at = CurrentTimestamp(t)]
            ELSE tbl[i]]

\* UPDATE orders SET status = 'paid', processed_at = CURRENT_TIMESTAMP
\* WHERE payment_id = ?
MarkPaid(tbl, paymentId, t) ==
    [i \in DOMAIN tbl |->
        IF tbl[i].payment_id = paymentId
        THEN [tbl[i] EXCEPT !.status = "paid", !.processed_at = CurrentTimestamp(t)]
        ELSE tbl[i]]

----------------------------------------------------------------------------
(* Requests *)

NoEvent == [shape |-> "none", type |-> "none", data |-> FALSE, sigValid |-> FALSE]

\* what a handler sends to its payment gateway: the amount, and for a Stripe
\* payment intent the application fee and the transfer destination when the
\* payment is split
NoParams == [amount |-> 0, split |-> FALSE, application_fee_amount |-> 0,
             destination |-> Null]
Amount(n) == [NoParams EXCEPT !.amount = n]

NewReq ==
    [kind |-> "new", pc |-> "new", cart |-> CartMissing, customer |-> NoCustomer,
     ref |-> NoRef, lid |-> NoLocalOrderId, rate |-> 0, gw |-> "none",
     called |-> FALSE, sent |-> NoParams, resp |-> 0, ev |-> NoEvent,
     ran |-> FALSE, rows |-> <<>>, listed |-> <<>>]

\* the requests of the run
Requests == BagToSet(reqs)

\* one more request may arrive
CanStart == BagCardinality(reqs) < MaxReqs

\* a request arrives; its handler has run to its first await (or its reply)
Arrive(r) == reqs' = reqs (+) SetToBag({r})

\* the handler of request r resumes and runs to its next await (or its reply)
Move(r, r2) == reqs' = (reqs (-) SetToBag({r})) (+) SetToBag({r2})

\* res.status(code).json(...) ends the handler; its locals are gone
Reply(r, code) ==
    [r EXCEPT !.pc = "done", !.resp = code, !.lid = NoLocalOrderId,
              !.ran = FALSE, !.rows = <<>>]

\* the database has executed the statement request r awaits (r.ran); its
\* promise is settled and the handler has not been resumed yet
Executed(r) == [r EXCEPT !.ran = TRUE]

----------------------------------------------------------------------------
(* server.js (part_000, part_001): create-paystack-order *)

\* mutant: the naira-priced checkout passes the USD total of the cart as well
DraftTotalsRedirectUsd(prog, kind, cart, customer, rate) ==
    LET usd == UsdTotal(cart)
        sup == UsdSupplierTotal(cart)
    IN  IF prog = "part_000" /\ kind = "paystack"
        THEN [usd |-> usd, kobo |-> NgnTotalKobo(cart, customer),
              supplier |-> 0, profit |-> 0]
        ELSE IF prog = "part_001" /\ kind = "opay"
        THEN [usd |-> usd, kobo |-> TotalKobo(usd, rate),
              supplier |-> 0, profit |-> 0]
        ELSE [usd |-> usd, kobo |-> TotalKobo(usd, rate),
              supplier |-> sup, profit |-> usd - sup]

\* the totals a handler passes to createDraftOrder
DraftTotals(prog, kind, cart, customer, rate) ==
    LET usd == UsdTotal(cart)
        sup == UsdSupplierTotal(cart)
    IN  IF prog = "part_000" /\ kind = "paystack"
        THEN [usd |-> 0, kobo |-> NgnTotalKobo(cart, customer),
              supplier |-> 0, profit |-> 0]
        ELSE IF prog = "part_001" /\ kind = "opay"
        THEN [usd |-> usd, kobo |-> TotalKobo(usd, rate),
              supplier |-> 0, profit |-> 0]
        ELSE [usd |-> usd, kobo |-> TotalKobo(usd, rate),
              supplier |-> sup, profit |-> usd - sup]

\* createDraftOrder: the row is built from the caller's arguments, the local
\* id was taken from the clock when the handler called it (r.lid)
createDraftOrder(tbl, seq, prog, r, t) ==
    LET tot == DraftTotals(prog, r.kind, r.cart, r.customer, r.rate)
    IN  InsertOrIgnore(tbl,
            DraftRow(seq, prog, r.lid, r.ref, r.cart, r.customer,
                     tot.usd, tot.kobo, tot.supplier, tot.profit, t))

\* the handler up to its first await
PaystackBegin(prog, cart, customer) ==
    LET r == [NewReq EXCEPT !.kind = "paystack", !.cart = cart, !.customer = customer]
    IN  IF CartRejected(cart) THEN Reply(r, 400)
        ELSE IF prog = "part_000"
        THEN [r EXCEPT !.pc = "gateway", !.called = TRUE,
                       !.sent = Amount(NgnTotalKobo(cart, customer))]
        ELSE [r EXCEPT !.pc = "rate"]

PaystackStart ==
    /\ program \in ServerPrograms
    /\ CanStart
    /\ \E cart \in Carts, customer \in ServerCustomers :
          Arrive(PaystackBegin(program, cart, customer))
    /\ UNCHANGED <<program, env, db, now, orders, sqlite_sequence, ordersFile, calc>>

\* what the rate service's response holds at conversion_rates.NGN; 0 stands
\* for a response without a non-zero rate
RateResponses == {0} \cup Rates

\* fetchUsdToNgnRate: it throws (0 here) when EXCHANGE_RATE_API_KEY is not
\* set, before any request, and when the response has no non-zero NGN rate
fetchUsdToNgnRate(apiKey, ngn) ==
    IF ~apiKey THEN 0
    ELSE IF ngn = 0 THEN 0
    ELSE ngn

\* part_001: fetchUsdToNgnRate() settles; on a rate the initialize call is made
PaystackOnRate(r, out) ==
    IF out = 0 THEN Reply(r, 500)
    ELSE [r EXCEPT !.rate = out, !.pc = "gateway", !.called = TRUE,
                   !.sent = Amount(TotalKobo(UsdTotal(r.cart), out))]

PaystackRate ==
    /\ \E r \in Requests :
          /\ r.kind = "paystack" /\ r.pc = "rate"
          /\ \E apiKey \in BOOLEAN, ngn \in RateResponses :
                Move(r, PaystackOnRate(r, fetchUsdToNgnRate(apiKey, ngn)))
    /\ UNCHANGED <<program, env, db, now, orders, sqlite_sequence, ordersFile, calc>>

\* mutant: the reference is sent to the caller before the draft is written
PaystackOnInitReplyFirst(r, out, t, handle) ==
    IF out = NoRef THEN Reply([r EXCEPT !.gw = "error"], 500)
    ELSE Reply([r EXCEPT !.gw = "ok", !.ref = out], 200)

\* axios.post(initialize) settles: it throws, or answers with a reference and
\* the handler calls createDraftOrder, where db.run throws while db is
\* undefined (the handler's catch answers 500) and otherwise hands the
\* INSERT to the database
PaystackOnInit(r, out, t, handle) ==
    IF out = NoRef THEN Reply([r EXCEPT !.gw = "error"], 500)
    ELSE IF handle = Undefined THEN Reply([r EXCEPT !.gw = "ok", !.ref = out], 500)
    ELSE [r EXCEPT !.gw = "ok", !.ref = out, !.lid = LocalOrderId(t), !.pc = "insert"]

PaystackInit ==
    /\ \E r \in Requests :
          /\ r.kind = "paystack" /\ r.pc = "gateway"
          /\ \E out \in {NoRef} \cup PaystackRefs : Move(r, PaystackOnInit(r, out, now, db))
    /\ UNCHANGED <<program, env, db, now, orders, sqlite_sequence, ordersFile, calc>>

\* the database executes the INSERT OR IGNORE a checkout handed to it; the
\* checkout still waits in createDraftOrder. CURRENT_TIMESTAMP, the default
\* of created_at, is read now.
RunInsert ==
    /\ \E r \in Requests :
          /\ r.kind \in {"paystack", "opay"} /\ r.pc = "insert" /\ ~r.ran
          /\ orders' = createDraftOrder(orders, sqlite_sequence, program, r, now)
          /\ sqlite_sequence' = sqlite_sequence + 1
          /\ Move(r, Executed(r))
    /\ UNCHANGED <<program, env, db, now, ordersFile, calc>>

\* the handler is resumed from await createDraftOrder(...) and answers with
\* the reference
PaystackDraft ==
    /\ \E r \in Requests :
          /\ r.kind = "paystack" /\ r.pc = "insert" /\ r.ran
          /\ Move(r, Reply(r, 200))
    /\ UNCHANGED <<program, env, db, now, orders, sqlite_sequence, ordersFile, calc>>

\* dropship.db outlives the process: the table is empty (fresh install), or
\* holds the order of an earlier run, a Paystack checkout that was verified
PriorLedger(prog) ==
    LET r == [NewReq EXCEPT !.kind = "paystack", !.cart = CartProfit, !.customer = Ada,
                             !.ref = <<"ps_ref_", 1>>, !.lid = LocalOrderId(PriorTime),
                             !.rate = CHOOSE x \in Rates : TRUE]
    IN  MarkPaid(createDraftOrder(<<>>, 0, prog, r, PriorTime), r.ref, PriorTime)

\* a later instant of that earlier run, within the same second
PriorTimeLater == PriorTime + 500

\* the database file of an earlier run that also served a mobile-money
\* checkout, half a second after the first order
PriorLedgerSameSecond(prog) ==
    LET r == [NewReq EXCEPT !.kind = "opay", !.cart = CartProfit, !.customer = Ada,
                             !.ref = OpayRef(PriorTimeLater),
                             !.lid = LocalOrderId(PriorTimeLater),
                             !.rate = CHOOSE x \in Rates : TRUE]
    IN  createDraftOrder(PriorLedger(prog), Len(PriorLedger(prog)), prog, r,
                         PriorTimeLater)

InitialLedgers(prog) ==
    IF prog \in ServerPrograms
    THEN {<<>>, PriorLedger(prog), PriorLedgerSameSecond(prog)}
    ELSE {<<>>}

----------------------------------------------------------------------------
(* server.js: GET /api/orders *)

\* the orders in which SELECT * FROM orders ORDER BY created_at DESC may
\* return the rows: created_at never increases along the result; SQL leaves
\* the order of rows with equal created_at open
OrderByCreatedAtDesc(tbl) ==
    {p \in [DOMAIN tbl -> DOMAIN tbl] :
        /\ \A k, l \in DOMAIN tbl : k # l => p[k] # p[l]
        /\ \A k, l \in DOMAIN tbl :
              k < l => tbl[p[k]].created_at >= tbl[p[l]].created_at}

\* !x for a column value: 0, NULL (read as null) and NaN are falsy
Falsy(x) == ToString(x) \in {ToString(0), ToString(Null), ToString(NaN)}

\* x ? x / 100 : 0
CentsOrZero(x) == IF Falsy(x) THEN Num(0) ELSE Num(x)

\* an order of the response: part_000 maps the row, part_001 sends it as it is
ListedOrder(prog, row) ==
    IF prog = "part_000"
    THEN [id |-> row.id,
          local_order_id |-> row.local_order_id,
          payment_id |-> row.payment_id,
          status |-> row.status,
          customer_name |-> row.customer_name,
          customer_email |-> row.customer_email,
          customer_phone |-> row.customer_phone,
          customer_address |-> row.customer_address,
          items |-> row.items_json,
          total_usd |-> CentsOrZero(row.total_cents_usd),
          total_ngn |-> CentsOrZero(row.total_kobo_ngn),
          supplier_share_usd |-> CentsOrZero(row.supplier_share_cents),
          profit_usd |-> CentsOrZero(row.profit_cents),
          supplier_response |-> row.supplier_response,
          created_at |-> row.created_at,
          processed_at |-> row.processed_at]
    ELSE row

\* the handler up to its await: the SELECT is handed to the database. While
\* db is undefined db.all throws, and the catch answers with res.json (status
\* 200) a body whose success is false and that lists no order.
ListOrdersBegin(handle) ==
    LET r == [NewReq EXCEPT !.kind = "list"]
    IN  IF handle = Undefined THEN Reply([r EXCEPT !.gw = "error"], 200)
        ELSE [r EXCEPT !.pc = "query"]

ListOrdersStart ==
    /\ program \in ServerPrograms
    /\ CanStart
    /\ Arrive(ListOrdersBegin(db))
    /\ UNCHANGED <<program, env, db, now, orders, sqlite_sequence, ordersFile, calc>>

\* SELECT * FROM orders ORDER BY created_at DESC: the rows of the table as
\* it is when the statement is executed, in the order p
SelectOrders(tbl, p) == [k \in DOMAIN tbl |-> tbl[p[k]]]

\* the database executes the SELECT a listing handed to it; the result
\* waits for the handler
RunSelect ==
    /\ \E r \in Requests :
          /\ r.kind = "list" /\ r.pc = "query" /\ ~r.ran
          /\ \E p \in OrderByCreatedAtDesc(orders) :
                Move(r, [Executed(r) EXCEPT !.rows = SelectOrders(orders, p)])
    /\ UNCHANGED <<program, env, db, now, orders, sqlite_sequence, ordersFile, calc>>

\* the handler, resumed from await db.all(...), maps the rows it was given
\* and answers
ListOrdersReply(r, prog) ==
    [Reply([r EXCEPT !.gw = "ok"], 200) EXCEPT
        !.listed = [k \in DOMAIN r.rows |-> ListedOrder(prog, r.rows[k])]]

ListOrders ==
    /\ \E r \in Requests :
          /\ r.kind = "list" /\ r.pc = "query" /\ r.ran
          /\ Move(r, ListOrdersReply(r, program))
    /\ UNCHANGED <<program, env, db, now, orders, sqlite_sequence, ordersFile, calc>>

----------------------------------------------------------------------------
(* server.js: create-opay-order *)

OpayBegin(cart, customer) ==
    LET r == [NewReq EXCEPT !.kind = "opay", !.cart = cart, !.customer = customer]
    IN  IF CartRejected(cart) THEN Reply(r, 400) ELSE [r EXCEPT !.pc = "rate"]

OpayStart ==
    /\ program \in ServerPrograms
    /\ CanStart
    /\ \E cart \in Carts, customer \in ServerCustomers : Arrive(OpayBegin(cart, customer))
    /\ UNCHANGED <<program, env, db, now, orders, sqlite_sequence, ordersFile, calc>>

\* mutant: a failed rate lookup is passed over and the invoice request is made
OpayOnRateIgnoresFailure(r, out, t, secretKey) ==
    IF ~secretKey THEN Reply([r EXCEPT !.rate = out, !.ref = OpayRef(t)], 500)
    ELSE [r EXCEPT !.rate = out, !.ref = OpayRef(t), !.pc = "gateway", !.called = TRUE,
              !.sent = Amount(TotalKobo(UsdTotal(r.cart), out))]

\* fetchUsdToNgnRate() settles; on a rate the reference is taken from the
\* clock, the body is signed (createHmac throws when OPAY_SECRET_KEY is not
\* set) and the invoice request is made
OpayOnRate(r, out, t, secretKey) ==
    IF out = 0 THEN Reply(r, 500)
    ELSE IF ~secretKey THEN Reply([r EXCEPT !.rate = out, !.ref = OpayRef(t)], 500)
    ELSE [r EXCEPT !.rate = out, !.ref = OpayRef(t), !.pc = "gateway", !.called = TRUE,
                   !.sent = Amount(TotalKobo(UsdTotal(r.cart), out))]

OpayRate ==
    /\ \E r \in Requests :
          /\ r.kind = "opay" /\ r.pc = "rate"
          /\ \E apiKey \in BOOLEAN, ngn \in RateResponses, secretKey \in BOOLEAN :
                Move(r, OpayOnRate(r, fetchUsdToNgnRate(apiKey, ngn), now, secretKey))
    /\ UNCHANGED <<program, env, db, now, orders, sqlite_sequence, ordersFile, calc>>

\* mutant: the failure of the invoice request is caught and passed over
OpayOnInvoiceSwallow(r, out, t, handle) ==
    IF handle = Undefined THEN Reply([r EXCEPT !.gw = out], 500)
    ELSE [r EXCEPT !.gw = out, !.lid = LocalOrderId(t), !.pc = "insert"]

\* axios.post(invoices/create) settles: it throws, or answers (the body is
\* not looked at) and the handler calls createDraftOrder, where db.run
\* throws while db is undefined; the handler's catch answers 500
OpayOnInvoice(r, out, t, handle) ==
    IF out = "error" THEN Reply([r EXCEPT !.gw = "error"], 500)
    ELSE IF handle = Undefined THEN Reply([r EXCEPT !.gw = out], 500)
    ELSE [r EXCEPT !.gw = out, !.lid = LocalOrderId(t), !.pc = "insert"]

OpayInvoice ==
    /\ \E r \in Requests :
          /\ r.kind = "opay" /\ r.pc = "gateway"
          /\ \E out \in {"error", "ok", "declined"} : Move(r, OpayOnInvoice(r, out, now, db))
    /\ UNCHANGED <<program, env, db, now, orders, sqlite_sequence, ordersFile, calc>>

\* the handler is resumed from await createDraftOrder(...) and answers with
\* the reference and the provider's body
OpayDraft ==
    /\ \E r \in Requests :
          /\ r.kind = "opay" /\ r.pc = "insert" /\ r.ran
          /\ Move(r, Reply(r, 200))
    /\ UNCHANGED <<program, env, db, now, orders, sqlite_sequence, ordersFile, calc>>

----------------------------------------------------------------------------
(* server.js: paystack-callback (poll-and-verify) *)

\* references a caller may poll: any the gateway issues, and any in the ledger
KnownRefs(tbl) == PaystackRefs \cup {tbl[i].payment_id : i \in DOMAIN tbl}

VerifyBegin(ref) ==
    LET r == [NewReq EXCEPT !.kind = "verify", !.ref = ref]
    IN  IF ref = NoRef THEN Reply(r, 400)
        ELSE [r EXCEPT !.pc = "gateway", !.called = TRUE]

VerifyStart ==
    /\ program \in ServerPrograms
    /\ CanStart
    /\ \E ref \in {NoRef} \cup KnownRefs(orders) : Arrive(VerifyBegin(ref))
    /\ UNCHANGED <<program, env, db, now, orders, sqlite_sequence, ordersFile, calc>>

\* axios.get(verify) settles: it throws, or answers with data.status; on
\* success the UPDATE is handed to the database, and db.run throws while db
\* is undefined (the catch answers 500)
VerifyOnReply(r, out, handle) ==
    IF out = "error" THEN Reply([r EXCEPT !.gw = out], 500)
    ELSE IF out = "success"
    THEN IF handle = Undefined THEN Reply([r EXCEPT !.gw = out], 500)
         ELSE [r EXCEPT !.gw = out, !.pc = "update"]
    ELSE Reply([r EXCEPT !.gw = out], 400)

\* what axios.get(transaction/verify/<reference>) may settle with: the
\* handler sends whatever reference it was called with, and nothing in the
\* code ties the gateway's answer to the references it issued
PaystackVerifyAnswers(ref) == {"error", "success", "failed", "abandoned"}

VerifyReply ==
    /\ \E r \in Requests :
          /\ r.kind = "verify" /\ r.pc = "gateway"
          /\ \E out \in PaystackVerifyAnswers(r.ref) :
                Move(r, VerifyOnReply(r, out, db))
    /\ UNCHANGED <<program, env, db, now, orders, sqlite_sequence, ordersFile, calc>>

\* the database executes the UPDATE a poll-and-verify handed to it;
\* CURRENT_TIMESTAMP is read now, and the handler still waits
RunUpdate ==
    /\ \E r \in Requests :
          /\ r.kind = "verify" /\ r.pc = "update" /\ ~r.ran
          /\ orders' = MarkPaid(orders, r.ref, now)
          /\ Move(r, Executed(r))
    /\ UNCHANGED <<program, env, db, now, sqlite_sequence, ordersFile, calc>>

\* the handler, resumed from await db.run(UPDATE ...), answers with the
\* gateway's data
VerifyUpdate ==
    /\ \E r \in Requests :
          /\ r.kind = "verify" /\ r.pc = "update" /\ r.ran
          /\ Move(r, Reply(r, 200))
    /\ UNCHANGED <<program, env, db, now, orders, sqlite_sequence, ordersFile, calc>>

----------------------------------------------------------------------------
(* backend.js (ship.js): create-paystack-order and paystack-callback *)

\* total, the sum of (price || 0) * (quantity || 1) added up item by item
RECURSIVE ShipTotal(_, _)
ShipTotal(items, total) ==
    IF items = <<>> THEN total
    ELSE ShipTotal(Tail(items),
             DoublePlus(total,
                 DoubleTimes(DoubleOfHundredths(Head(items).price),
                             DoubleOfInt(Qty(Head(items))))))

\* totalKobo = total * 100, in floating point and not rounded: an integer
\* number of kobo only when the products happen to be exact
ShipTotalKobo(cart) ==
    NumberOfDouble(DoubleTimes(ShipTotal(cart.items, DoubleOfInt(0)), DoubleOfInt(100)))

\* totalKobo of each cart a request may carry, worked out once
RECURSIVE ShipTotalKoboTable(_)
ShipTotalKoboTable(carts) ==
    IF carts = {} THEN <<>>
    ELSE LET cart == CHOOSE c \in carts : TRUE
         IN  (cart :> ShipTotalKobo(cart)) @@ ShipTotalKoboTable(carts \ {cart})
ShipTotalKoboOf == ShipTotalKoboTable({c \in Carts : c.shape = "list"})

\* the handler up to its first await: cartItems.forEach throws a TypeError
\* on anything but an array, and the catch answers 500
ShipPaystackBegin(cart, customer) ==
    LET r == [NewReq EXCEPT !.kind = "shipPaystack", !.cart = cart, !.customer = customer]
    IN  IF ~customer.present \/ customer.email = "" THEN Reply(r, 400)
        ELSE IF cart.shape # "list" THEN Reply(r, 500)
        ELSE [r EXCEPT !.pc = "gateway", !.called = TRUE,
                       !.sent = Amount(ShipTotalKoboOf[cart])]

ShipPaystackStart ==
    /\ program = "ship.js"
    /\ CanStart
    /\ \E cart \in Carts, customer \in ShipCustomers :
          Arrive(ShipPaystackBegin(cart, customer))
    /\ UNCHANGED <<program, env, db, now, orders, sqlite_sequence, ordersFile, calc>>

\* axios.post(initialize) settles: it throws, or answers with or without
\* data.status and data.data.authorization_url
ShipPaystackOnInit(r, out) ==
    IF out = "ok" THEN Reply([r EXCEPT !.gw = out], 200)
    ELSE Reply([r EXCEPT !.gw = out], 500)

ShipPaystackInit ==
    /\ \E r \in Requests :
          /\ r.kind = "shipPaystack" /\ r.pc = "gateway"
          /\ \E out \in {"error", "ok", "refused"} : Move(r, ShipPaystackOnInit(r, out))
    /\ UNCHANGED <<program, env, db, now, orders, sqlite_sequence, ordersFile, calc>>

ShipCallbackBegin(ref) ==
    LET r == [NewReq EXCEPT !.kind = "shipCallback", !.ref = ref]
    IN  IF ref = NoRef THEN Reply(r, 400)
        ELSE [r EXCEPT !.pc = "gateway", !.called = TRUE]

ShipCallbackStart ==
    /\ program = "ship.js"
    /\ CanStart
    /\ \E ref \in {NoRef} \cup PaystackRefs : Arrive(ShipCallbackBegin(ref))
    /\ UNCHANGED <<program, env, db, now, orders, sqlite_sequence, ordersFile, calc>>

\* axios.get(verify) settles; nothing is saved (TODO in the source)
ShipCallbackOnReply(r, out) ==
    IF out = "error" THEN Reply([r EXCEPT !.gw = out], 500)
    ELSE IF out = "success" THEN Reply([r EXCEPT !.gw = out], 200)
    ELSE Reply([r EXCEPT !.gw = out], 400)

ShipCallbackReply ==
    /\ \E r \in Requests :
          /\ r.kind = "shipCallback" /\ r.pc = "gateway"
          /\ \E out \in PaystackVerifyAnswers(r.ref) :
                Move(r, ShipCallbackOnReply(r, out))
    /\ UNCHANGED <<program, env, db, now, orders, sqlite_sequence, ordersFile, calc>>

----------------------------------------------------------------------------
(* backend.js: create-payment-intent *)

\* parseInt(x, 10) of the number h/100: the digits before the point, that is
\* truncation toward zero
ParseInt(h) == IF h >= 0 THEN h \div 100 ELSE -((-h) \div 100)

\* parseInt(it.quantity || it.qty || 1, 10)
IntentTotal(cart) ==
    SumSeq([i \in DOMAIN cart.items |->
              ParseInt(cart.items[i].price) * Qty(cart.items[i])])
IntentSupplierTotal(cart) ==
    SumSeq([i \in DOMAIN cart.items |->
              ParseInt(cart.items[i].supplierCost) * Qty(cart.items[i])])
IntentProfit(cart) == IntentTotal(cart) - IntentSupplierTotal(cart)

\* mutant: the application fee is the supplier's share
IntentParamsFeeIsSupplierShare(cart, account) ==
    IF account # Null
    THEN [amount |-> IntentTotal(cart), split |-> TRUE,
          application_fee_amount |-> IntentSupplierTotal(cart),
          destination |-> account]
    ELSE Amount(IntentTotal(cart))

\* params of stripe.paymentIntents.create: the split is set only when
\* SUPPLIER_STRIPE_ACCOUNT is configured
IntentParams(cart, account) ==
    IF account # Null
    THEN [amount |-> IntentTotal(cart), split |-> TRUE,
          application_fee_amount |-> IntentProfit(cart),
          destination |-> account]
    ELSE Amount(IntentTotal(cart))

IntentBegin(cart, account) ==
    LET r == [NewReq EXCEPT !.kind = "intent", !.cart = cart]
    IN  IF cart.shape = "missing" \/ CartRejected(cart) THEN Reply(r, 400)
        ELSE IF IntentProfit(cart) < 0 THEN Reply(r, 400)
        ELSE [r EXCEPT !.pc = "gateway", !.called = TRUE,
                       !.sent = IntentParams(cart, account)]

IntentStart ==
    /\ program = "ship.js"
    /\ CanStart
    /\ \E cart \in Carts : Arrive(IntentBegin(cart, env.supplierAccount))
    /\ UNCHANGED <<program, env, db, now, orders, sqlite_sequence, ordersFile, calc>>

\* stripe.paymentIntents.create settles
IntentOnCreate(r, out) ==
    IF out = "error" THEN Reply([r EXCEPT !.gw = out], 500)
    ELSE Reply([r EXCEPT !.gw = out], 200)

IntentCreate ==
    /\ \E r \in Requests :
          /\ r.kind = "intent" /\ r.pc = "gateway"
          /\ \E out \in {"error", "ok"} : Move(r, IntentOnCreate(r, out))
    /\ UNCHANGED <<program, env, db, now, orders, sqlite_sequence, ordersFile, calc>>

----------------------------------------------------------------------------
(* backend.js: place-order *)

\* 'ds-' + Date.now()
MerchantOrderId(t) == <<"ds-", t>>

\* the carts sent to place-order: none, an empty one, the one that was paid
PlaceCarts == {CartMissing, CartEmpty, CartProfit}

\* the handler up to its first await
PlaceBegin(cart, id, customer) ==
    LET r == [NewReq EXCEPT !.kind = "place", !.cart = cart, !.ref = id,
                             !.customer = customer]
    IN  IF cart.shape = "missing" \/ CartRejected(cart) THEN Reply(r, 400)
        ELSE IF id = NoRef THEN Reply(r, 400)
        ELSE [r EXCEPT !.pc = "gateway", !.called = TRUE]

PlaceStart ==
    /\ program = "ship.js"
    /\ CanStart
    /\ \E cart \in PlaceCarts, id \in {NoRef} \cup IntentIds, customer \in ShipCustomers :
          Arrive(PlaceBegin(cart, id, customer))
    /\ UNCHANGED <<program, env, db, now, orders, sqlite_sequence, ordersFile, calc>>

\* mutant: the intent's status is not looked at
PlaceOnRetrieveAnyStatus(r, out, t, supplierApi) ==
    IF out = "error" THEN Reply([r EXCEPT !.gw = out], 500)
    ELSE [r EXCEPT !.gw = out, !.lid = MerchantOrderId(t),
                   !.pc = IF supplierApi THEN "supplier" ELSE "save"]

\* stripe.paymentIntents.retrieve settles: it throws, or answers with the
\* intent; a succeeded intent gets its supplier order, which is forwarded
\* when a supplier API is configured and answered by a simulation otherwise
PlaceOnRetrieve(r, out, t, supplierApi) ==
    IF out = "error" THEN Reply([r EXCEPT !.gw = out], 500)
    ELSE IF out # "succeeded" THEN Reply([r EXCEPT !.gw = out], 400)
    ELSE [r EXCEPT !.gw = out, !.lid = MerchantOrderId(t),
                   !.pc = IF supplierApi THEN "supplier" ELSE "save"]

\* supplierOrder.items: cartItems.map(i => ({ sku, qty: i.quantity || i.qty
\* || 1, title, price })); the carts carry no sku and no title, and JSON
\* leaves undefined fields out
SupplierItems(cart) ==
    [i \in DOMAIN cart.items |->
        [qty |-> IF cart.items[i].quantity = 0 THEN 1 ELSE cart.items[i].quantity,
         price |-> cart.items[i].price]]

\* savedOrder
SavedOrder(r, supplierResponse, t) ==
    [local_order_id |-> r.lid,
     payment_intent |-> r.ref,
     supplier_response |-> supplierResponse,
     payload |-> [merchant_order_id |-> r.lid, customer |-> r.customer,
                  items |-> SupplierItems(r.cart), payment |-> r.ref],
     customer |-> r.customer,
     created_at |-> t]

\* mutant: the file is written from an empty list, not from what was read
saveOrderLocallyFromEmpty(file, order) == <<order>>

\* saveOrderLocally: read orders.json, push, write it back, synchronously
saveOrderLocally(file, order) == Append(file, order)

\* after the save the handler awaits the customer's mail (when there is an
\* address) or the admin's
PlaceAfterSave(r) ==
    [r EXCEPT !.pc = IF r.customer.present /\ r.customer.email # ""
                     THEN "mailCustomer" ELSE "mailAdmin"]

PlaceRetrieve ==
    /\ \E r \in Requests :
          /\ r.kind = "place" /\ r.pc = "gateway"
          /\ \E out \in {"error", "succeeded", "requires_payment_method", "processing"} :
                LET r2 == PlaceOnRetrieve(r, out, now, env.supplierApi)
                IN  IF r2.pc = "save"
                    THEN /\ ordersFile' = saveOrderLocally(ordersFile,
                                              SavedOrder(r2, "simulated", now))
                         /\ Move(r, PlaceAfterSave(r2))
                    ELSE /\ ordersFile' = ordersFile
                         /\ Move(r, r2)
    /\ UNCHANGED <<program, env, db, now, orders, sqlite_sequence, calc>>

\* axios.post(SUPPLIER_API_URL) settles; a failure is logged and kept as the
\* supplier's response, and the order is saved either way
PlaceSupplier ==
    /\ \E r \in Requests :
          /\ r.kind = "place" /\ r.pc = "supplier"
          /\ \E out \in {"accepted", "failed"} :
                /\ ordersFile' = saveOrderLocally(ordersFile, SavedOrder(r, out, now))
                /\ Move(r, PlaceAfterSave(r))
    /\ UNCHANGED <<program, env, db, now, orders, sqlite_sequence, calc>>

\* transporter.sendMail to the customer settles; a failure leaves the try
\* block, so that the admin's mail is not sent
PlaceOnMailCustomer(r, sent) ==
    IF sent THEN [r EXCEPT !.pc = "mailAdmin"] ELSE Reply(r, 200)

PlaceMailCustomer ==
    /\ \E r \in Requests :
          /\ r.kind = "place" /\ r.pc = "mailCustomer"
          /\ \E sent \in BOOLEAN : Move(r, PlaceOnMailCustomer(r, sent))
    /\ UNCHANGED <<program, env, db, now, orders, sqlite_sequence, ordersFile, calc>>

\* transporter.sendMail to the admin settles, and the handler answers
PlaceMailAdmin ==
    /\ \E r \in Requests :
          /\ r.kind = "place" /\ r.pc = "mailAdmin"
          /\ Move(r, Reply(r, 200))
    /\ UNCHANGED <<program, env, db, now, orders, sqlite_sequence, ordersFile, calc>>

----------------------------------------------------------------------------
(* backend.js: POST /webhook *)

\* The bodies a delivery may carry: a JSON object (what Stripe sends), or a
\* JSON array whose one element is a string holding the event's JSON text.
BodyShapes == {"object", "wrapped"}
EventTypes == {"payment_intent.succeeded", "payment_intent.payment_failed",
               "customer.created"}
\* an event: how its body is sent, its type, whether it has a data.object,
\* and whether the stripe-signature header matches the body
Events == [shape : BodyShapes, type : EventTypes, data : BOOLEAN, sigValid : BOOLEAN]

\* app.use(express.json()) runs first on every request and leaves the parsed
\* value in req.body; bodyParser.raw, second and on the route, then finds the
\* body already read and leaves it alone: the handler never sees a Buffer.
ExpressJson(shape) == IF shape = "wrapped" THEN "array" ELSE "object"
BodyParserRaw(body) == body

\* JSON.parse(req.body.toString()): an object prints as "[object Object]",
\* which is no JSON; an array prints as its elements joined by commas, and
\* a Buffer as the text it holds
NaiveParseThrows(body) == body = "object"

\* mutant: the event is parsed from the body and its signature not verified
ConstructEventUnverified(body, sigValid) == FALSE

\* stripe.webhooks.constructEvent verifies the signature over the raw
\* payload: it throws unless it is given the bytes that were signed
ConstructEventThrows(body, sigValid) == body # "buffer" \/ ~sigValid

\* handleStripeEvent only logs: for the two payment_intent types it logs
\* event.data.object.id, and rejects with a TypeError when the event has no
\* data.object; for every other type it resolves
HandleStripeEventOk(type, data) ==
    type \in {"payment_intent.succeeded", "payment_intent.payment_failed"} => data

\* the status the webhook handler answers with
WebhookStatus(secret, ev) ==
    LET body == BodyParserRaw(ExpressJson(ev.shape))
    IN  IF ~secret
        THEN IF NaiveParseThrows(body) THEN 500
             ELSE IF HandleStripeEventOk(ev.type, ev.data) THEN 200 ELSE 500
        ELSE IF ConstructEventThrows(body, ev.sigValid) THEN 400
             ELSE IF HandleStripeEventOk(ev.type, ev.data) THEN 200 ELSE 500

\* whether the event reached handleStripeEvent
WebhookHandled(secret, ev) ==
    LET body == BodyParserRaw(ExpressJson(ev.shape))
    IN  IF ~secret THEN ~NaiveParseThrows(body)
        ELSE ~ConstructEventThrows(body, ev.sigValid)

\* the deliveries a run sees: the stripe-signature header is read only when
\* a secret is configured, and a run without one gets deliveries without it;
\* what Stripe has signed has a data.object
Deliveries(secret) == {ev \in Events : ev.sigValid => secret /\ ev.data}

\* the handler has no await before it answers: one step
Webhook ==
    /\ program = "ship.js"
    /\ CanStart
    /\ \E ev \in Deliveries(env.webhookSecret), id \in IntentIds :
          Arrive(Reply([NewReq EXCEPT !.kind = "webhook", !.ev = ev,
                                      !.ref = IF ev.data THEN id ELSE NoRef,
                                      !.called = WebhookHandled(env.webhookSecret, ev)],
                       WebhookStatus(env.webhookSecret, ev)))
    /\ UNCHANGED <<program, env, db, now, orders, sqlite_sequence, ordersFile, calc>>

----------------------------------------------------------------------------
(* The helpers of server.js on their own *)

\* a call: the functions still to apply, innermost first, and the value so far
Call(fns, arg) == [fns |-> fns, todo |-> fns, arg |-> arg, val |-> arg]
NoCall == Call(<<>>, 0)

\* amounts n handed to toCents: the integers from -MaxBelow to MaxUnits
IntegerAmounts == (0 - MaxBelow) .. MaxUnits
\* numbers with a fraction (0.01, 0.5, 19.99, 1000.5, 1001.01), as hundredths
FractionAmounts == {1, 50, 1999, 100050, 100101}
ToCentsInputs ==
    {Num(100 * n) : n \in IntegerAmounts} \cup {Num(h) : h \in FractionAmounts}
        \cup {NaN, Infinity}
\* cent amounts handed to fromCents and then back to toCents
CentAmounts == {100 * k : k \in 0 .. MaxUnits} \cup {1, 150, 1050, 100150}
\* values of customer.state: listed, unlisted, empty, absent ("undefined" is
\* the key an absent state is looked up under), inherited names
Regions ==
    DOMAIN SHIPPING_FEES
        \cup {"Unknown-Region", "", "undefined", "lagos"} \cup ObjectPrototypeKeys

Calls ==
    {Call(<<"toCents">>, v) : v \in ToCentsInputs}
        \cup {Call(<<"fromCents", "toCents">>, c) : c \in CentAmounts}
        \cup {Call(<<"getShippingFee">>, s) : s \in Regions}

ApplyToCents ==
    /\ calc.todo # <<>> /\ Head(calc.todo) = "toCents"
    /\ calc' = [calc EXCEPT !.todo = Tail(@), !.val = toCents(@)]
    /\ UNCHANGED <<program, env, db, now, orders, sqlite_sequence, ordersFile, reqs>>

ApplyFromCents ==
    /\ calc.todo # <<>> /\ Head(calc.todo) = "fromCents"
    /\ calc' = [calc EXCEPT !.todo = Tail(@), !.val = fromCents(@)]
    /\ UNCHANGED <<program, env, db, now, orders, sqlite_sequence, ordersFile, reqs>>

ApplyGetShippingFee ==
    /\ calc.todo # <<>> /\ Head(calc.todo) = "getShippingFee"
    /\ calc' = [calc EXCEPT !.todo = Tail(@), !.val = getShippingFee(@)]
    /\ UNCHANGED <<program, env, db, now, orders, sqlite_sequence, ordersFile, reqs>>

InitCalc ==
    /\ program = "part_000"
    /\ env = NoEnv
    /\ db = Undefined
    /\ now = StartTime
    /\ orders = <<>>
    /\ sqlite_sequence = 0
    /\ ordersFile = <<>>
    /\ reqs = EmptyBag
    /\ calc \in Calls

NextCalc ==
    \/ ApplyToCents
    \/ ApplyFromCents
    \/ ApplyGetShippingFee

SpecCalc == InitCalc /\ [][NextCalc]_vars

----------------------------------------------------------------------------
(* The runs *)

\* the module has loaded: server.js listens and its start-up block awaits
\* open(); backend.js has no database
Init ==
    /\ program \in Programs
    /\ env \in ShipEnvs
    /\ program \in ServerPrograms => env = NoEnv
    /\ db = Undefined
    /\ now = StartTime
    /\ orders \in InitialLedgers(program)
    /\ sqlite_sequence = Len(orders)
    /\ ordersFile = <<>>
    /\ reqs = EmptyBag
    /\ calc = NoCall

\* server.js: open() resolves and the start-up block assigns db
OpenDatabase ==
    /\ program \in ServerPrograms
    /\ db = Undefined
    /\ db' = Database
    /\ UNCHANGED <<program, env, now, orders, sqlite_sequence, ordersFile, reqs, calc>>

\* time passes: by a millisecond, or into the next second
Tick ==
    /\ now' \in {t \in Times : t > now}
    /\ UNCHANGED <<program, env, db, orders, sqlite_sequence, ordersFile, reqs, calc>>

Next ==
    \/ Tick
    \/ OpenDatabase
    \/ PaystackStart
    \/ PaystackRate
    \/ PaystackInit
    \/ RunInsert
    \/ PaystackDraft
    \/ ListOrdersStart
    \/ RunSelect
    \/ ListOrders
    \/ OpayStart
    \/ OpayRate
    \/ OpayInvoice
    \/ OpayDraft
    \/ VerifyStart
    \/ VerifyReply
    \/ RunUpdate
    \/ VerifyUpdate
    \/ ShipPaystackStart
    \/ ShipPaystackInit
    \/ ShipCallbackStart
    \/ ShipCallbackReply
    \/ IntentStart
    \/ IntentCreate
    \/ PlaceStart
    \/ PlaceRetrieve
    \/ PlaceSupplier
    \/ PlaceMailCustomer
    \/ PlaceMailAdmin
    \/ Webhook

Spec == Init /\ [][Next]_vars

----------------------------------------------------------------------------
(* Properties *)

\* the kinds of request that call createDraftOrder
DraftKinds == {"paystack", "opay"}

\* in this step the handler of request r ran, and left it as r2
Stepped(r, r2) ==
    /\ r # r2
    /\ reqs' = (reqs (-) SetToBag({r})) (+) SetToBag({r2})

\* in this step request r2 arrived
Arrived(r2) == reqs' = reqs (+) SetToBag({r2})

\* an earlier call of createDraftOrder for the reference of r2: the request q
\* has got its gateway's answer and gone on to the call
CalledBefore(q, r2) ==
    /\ q.kind \in DraftKinds /\ q.pc \in {"insert", "done"}
    /\ q.gw \in {"ok", "declined"}
    /\ q.ref = r2.ref

\* C1 (as claimed): a second createDraftOrder call for a payment reference
\* does not fail; the INSERT of a call leaves exactly one row for its
\* reference, and when a row for the reference exists already it leaves the
\* whole table, that row included, as it was; the call then returns and the
\* handler answers 200.
C1_DraftIdempotent ==
    [][\A r \in Requests : \A r2 \in BagToSet(reqs') :
          /\ (/\ Stepped(r, r2) /\ r.kind \in DraftKinds /\ r.pc = "gateway"
               /\ r2.gw \in {"ok", "declined"}
               /\ \E q \in Requests : CalledBefore(q, r2)) => r2.pc = "insert"
          /\ (Stepped(r, r2) /\ r.pc = "insert" /\ ~r.ran) =>
                /\ r2 = Executed(r)
                /\ Cardinality(RowsOf(orders', r.ref)) = 1
                /\ (RowsOf(orders, r.ref) # {} => orders' = orders)
          /\ (Stepped(r, r2) /\ r.pc = "insert" /\ r.ran) =>
                /\ r2.pc = "done" /\ r2.resp = 200
                /\ orders' = orders]_vars

\* C2 (as claimed): in every reachable state, whatever the interleaving of
\* the handlers, no two rows share a payment reference, and once every
\* attempt to create the draft of a reference has completed there is exactly
\* one row for it.
C2_OneRowPerReference ==
    /\ \A i, j \in DOMAIN orders :
          orders[i].payment_id = orders[j].payment_id => i = j
    /\ \A r \in Requests :
          (/\ r.kind \in DraftKinds /\ r.pc = "done" /\ r.gw \in {"ok", "declined"}
           /\ \A q \in Requests : (q.kind \in DraftKinds /\ q.ref = r.ref) => q.pc = "done")
              => Cardinality(RowsOf(orders, r.ref)) = 1

\* C3: no step changes the status of a row that is paid or failed: after the
\* step a row with its payment reference exists and every such row has the
\* same status.
C3_TerminalStatusKept ==
    [][\A i \in DOMAIN orders :
          orders[i].status \in {"paid", "failed"} =>
              /\ RowsOf(orders', orders[i].payment_id) # {}
              /\ \A j \in RowsOf(orders', orders[i].payment_id) :
                    orders'[j].status = orders[i].status]_vars

\* a paid row has seen a later draft creation and a later failed verification
\* for its reference
C3_Witness ==
    \E i \in DOMAIN orders :
        /\ orders[i].status = "paid"
        /\ \E r \in Requests :
              /\ r.kind \in DraftKinds /\ r.pc = "done" /\ r.resp = 200
              /\ r.ref = orders[i].payment_id
        /\ \E r \in Requests :
              /\ r.kind = "verify" /\ r.pc = "done" /\ r.gw = "failed"
              /\ r.ref = orders[i].payment_id

\* C4 (as claimed): once processed_at of a row is set, no step changes it.
C4_ProcessedAtOnce ==
    [][\A i \in DOMAIN orders :
          orders[i].processed_at # NullTime =>
              /\ i \in DOMAIN orders'
              /\ orders'[i].processed_at = orders[i].processed_at]_vars

\* C5 (as claimed): when a poll-and-verify handler answers: if the gateway reported
\* success the answer is 200 and every row with the reference is paid; if the
\* gateway reported another status the answer is 400 and the handler has
\* left the ledger as it was.
C5_VerifyOutcome ==
    [][\A r \in Requests : \A r2 \in BagToSet(reqs') :
          (Stepped(r, r2) /\ r2.kind \in {"verify", "shipCallback"} /\ r2.pc = "done") =>
              /\ r2.gw = "success" =>
                    /\ r2.resp = 200
                    /\ \A i \in RowsOf(orders', r2.ref) : orders'[i].status = "paid"
              /\ r2.gw \in {"failed", "abandoned"} =>
                    /\ r2.resp = 400
                    /\ orders' = orders]_vars

\* the supplier share of the cart exceeds its total
CartLossy(cart) ==
    SumSeq([i \in DOMAIN cart.items |-> cart.items[i].supplierCost * Qty(cart.items[i])])
      > SumSeq([i \in DOMAIN cart.items |-> cart.items[i].price * Qty(cart.items[i])])

\* C6 (as claimed): a checkout whose cart has a supplier share above its
\* total never calls the payment gateway, is answered 400, and no row holds
\* its cart.
C6_LossRejected ==
    \A r \in Requests :
        (r.kind \in {"paystack", "opay", "intent"} /\ ~CartRejected(r.cart)
            /\ CartLossy(r.cart)) =>
            /\ ~r.called
            /\ r.pc = "done" => r.resp = 400
            /\ \A i \in DOMAIN orders : orders[i].items_json # r.cart.items

\* C7 (as claimed): every row has profit = total - supplier share, and the
\* profit is not negative.
C7_ProfitIdentity ==
    \A i \in DOMAIN orders :
        /\ orders[i].profit_cents
              = orders[i].total_cents_usd - orders[i].supplier_share_cents
        /\ orders[i].profit_cents >= 0

\* C8 (as claimed): a checkout whose cart is missing, no list or empty is
\* answered 400 at once, without a call to the gateway.
C8_EmptyCartRejected ==
    \A r \in Requests :
        (r.kind \in {"paystack", "opay", "shipPaystack", "intent"}
            /\ CartRejected(r.cart)) =>
            /\ r.pc = "done" /\ r.resp = 400
            /\ ~r.called

\* C9: when the outbound request of a checkout handler fails, the handler
\* answers 500 in that step and the ledger is as it was; a handler that has
\* answered takes no further step.
C9_GatewayFailure ==
    [][\A r \in Requests : \A r2 \in BagToSet(reqs') :
          Stepped(r, r2) =>
              /\ r.pc # "done"
              /\ (r.kind \in {"paystack", "opay", "shipPaystack"}
                    /\ r.pc = "gateway" /\ r2.gw = "error") =>
                    /\ r2.pc = "done" /\ r2.resp = 500
                    /\ orders' = orders]_vars

\* a mobile-money checkout whose invoice request failed was answered 500 and
\* the ledger holds no row for the reference it had generated
C9_Witness ==
    \E r \in Requests :
        /\ r.kind = "opay" /\ r.pc = "done" /\ r.gw = "error" /\ r.resp = 500
        /\ r.ref # NoRef
        /\ RowsOf(orders, r.ref) = {}

\* the payment intent of the event has a local order
HasLocalOrder(file, id) == \E i \in DOMAIN file : file[i].payment_intent = id

\* C10 (as claimed): a delivery that is not refused for its signature (no
\* secret configured, or a valid signature) is answered 200 and changes no
\* order when its event type is unrecognized, or is payment_intent.succeeded
\* for an intent without a local order.
C10_WebhookAcknowledged ==
    [][\A r2 \in BagToSet(reqs') :
          (Arrived(r2) /\ r2.kind = "webhook"
              /\ (~env.webhookSecret \/ r2.ev.sigValid)
              /\ \/ r2.ev.type \notin {"payment_intent.succeeded",
                                       "payment_intent.payment_failed"}
                 \/ r2.ev.type = "payment_intent.succeeded"
                      /\ ~HasLocalOrder(ordersFile, r2.ref)) =>
              /\ r2.resp = 200
              /\ orders' = orders /\ ordersFile' = ordersFile]_vars

\* C11: a delivery whose signature does not verify, with a signing secret
\* configured, is answered 400, does not reach handleStripeEvent, and leaves
\* the order table and orders.json as they were.
C11_BadSignatureRejected ==
    [][\A r2 \in BagToSet(reqs') :
          (Arrived(r2) /\ r2.kind = "webhook"
              /\ env.webhookSecret /\ ~r2.ev.sigValid) =>
              /\ r2.resp = 400
              /\ ~r2.called
              /\ orders' = orders /\ ordersFile' = ordersFile]_vars

\* a delivery with a bad signature was answered 400 by a server that has a
\* signing secret
C11_Witness ==
    \E r \in Requests :
        /\ r.kind = "webhook" /\ env.webhookSecret /\ ~r.ev.sigValid
        /\ r.pc = "done" /\ r.resp = 400 /\ ~r.called

\* the saved order carries a status, and it is paid
IsPaid(order) == "status" \in DOMAIN order /\ order.status = "paid"

\* C12 (as claimed): when the webhook handler has passed a
\* payment_intent.succeeded event to handleStripeEvent and a local order has
\* the event's payment intent, that order is paid after the step.
C12_SucceededMarksPaid ==
    [][\A r2 \in BagToSet(reqs') :
          (Arrived(r2) /\ r2.kind = "webhook" /\ r2.called /\ r2.resp = 200
              /\ r2.ev.type = "payment_intent.succeeded"
              /\ HasLocalOrder(ordersFile, r2.ref)) =>
              \A i \in DOMAIN ordersFile' :
                  ordersFile'[i].payment_intent = r2.ref => IsPaid(ordersFile'[i])]_vars

\* C13: orders.json changes only in a step of a place-order handler that has
\* retrieved the intent and found it succeeded (so never in a step of
\* create-payment-intent); a place-order whose intent has another status is
\* answered 400 in the step the intent arrives, with nothing written.
C13_PlaceOnlyAfterSucceeded ==
    [][/\ ordersFile' # ordersFile =>
              \E r \in Requests : \E r2 \in BagToSet(reqs') :
                  /\ Stepped(r, r2)
                  /\ r.kind = "place" /\ r.called /\ r2.gw = "succeeded"
                  /\ \E o \in {ordersFile'[Len(ordersFile')]} :
                        /\ ordersFile' = Append(ordersFile, o)
                        /\ o.payment_intent = r.ref
       /\ \A r \in Requests : \A r2 \in BagToSet(reqs') :
              (Stepped(r, r2) /\ r.kind = "place" /\ r.pc = "gateway"
                  /\ r2.gw \notin {"succeeded", "error"}) =>
                  /\ r2.pc = "done" /\ r2.resp = 400
                  /\ ordersFile' = ordersFile /\ orders' = orders]_vars

\* one place-order has saved its order after a succeeded intent, and another
\* was answered 400 for an intent that had not succeeded
C13_Witness ==
    /\ \E r \in Requests :
          /\ r.kind = "place" /\ r.gw = "succeeded" /\ r.pc = "done" /\ r.resp = 200
          /\ HasLocalOrder(ordersFile, r.ref)
    /\ \E r \in Requests :
          /\ r.kind = "place" /\ r.gw = "processing" /\ r.pc = "done" /\ r.resp = 400

\* C14 (as claimed): no two orders of orders.json have the same payment
\* intent.
C14_OneOrderPerIntent ==
    \A i, j \in DOMAIN ordersFile :
        ordersFile[i].payment_intent = ordersFile[j].payment_intent => i = j

\* the reference was generated by the mobile-money handler
IsOpayRef(ref) == ref # NoRef /\ ref[1] = "opay_ref_"

\* C15 (as claimed): a row whose reference the mobile-money handler generated is pending,
\* and every step leaves it in the table, pending.
C15_OpayStaysPending ==
    [][\A i \in DOMAIN orders :
          IsOpayRef(orders[i].payment_id) =>
              /\ orders[i].status = "pending"
              /\ i \in DOMAIN orders'
              /\ orders'[i].payment_id = orders[i].payment_id
              /\ orders'[i].status = "pending"]_vars

\* C16 (as claimed): when the mobile-money handler finishes after the provider answered
\* its invoice request, whatever the answer's body, it answers 200 and the
\* table holds a pending row for the reference it generated.
C16_OpayDraftAlways ==
    [][\A r \in Requests : \A r2 \in BagToSet(reqs') :
          (Stepped(r, r2) /\ r2.kind = "opay" /\ r2.pc = "done"
              /\ r2.gw \in {"ok", "declined"}) =>
              /\ r2.resp = 200
              /\ \E i \in RowsOf(orders', r2.ref) :
                    IsOpayRef(r2.ref) /\ orders'[i].status = "pending"]_vars

\* C17: in the step in which the redirect checkout answers 200 with its
\* reference, the table already holds a row for that reference; the INSERT
\* of the checkout, executed before, created the row pending when the
\* reference had none; and no step removes a row or changes its reference.
C17_DraftBeforeReference ==
    [][/\ \A r \in Requests : \A r2 \in BagToSet(reqs') :
              /\ (Stepped(r, r2) /\ r2.kind = "paystack" /\ r2.pc = "done"
                      /\ r2.resp = 200) =>
                      /\ r2.ref \in PaystackRefs
                      /\ r.ran
                      /\ RowsOf(orders, r2.ref) # {}
                      /\ RowsOf(orders', r2.ref) # {}
              /\ (Stepped(r, r2) /\ r.kind = "paystack" /\ r.pc = "insert"
                      /\ ~r.ran) =>
                      /\ RowsOf(orders', r.ref) # {}
                      /\ RowsOf(orders, r.ref) = {} =>
                            \A i \in RowsOf(orders', r.ref) :
                                orders'[i].status = "pending"
       /\ \A i \in DOMAIN orders :
              /\ i \in DOMAIN orders'
              /\ orders'[i].payment_id = orders[i].payment_id]_vars

\* a redirect checkout was answered 200 and the row of its reference, new in
\* this run, is pending
C17_Witness ==
    \E r \in Requests :
        /\ r.kind = "paystack" /\ r.pc = "done" /\ r.resp = 200
        /\ \E i \in RowsOf(orders, r.ref) :
              orders[i].status = "pending" /\ orders[i].created_at >= CurrentTimestamp(StartTime)

\* the call applied these functions, innermost first, and has returned
Returned(fns) == calc.fns = fns /\ calc.todo = <<>>

\* C18 (as claimed): toCents(fromCents(x)) = x for every integer x that is
\* divisible by 100 and greater than 1000.
C18_RoundTrip ==
    (Returned(<<"fromCents", "toCents">>) /\ calc.arg % 100 = 0 /\ calc.arg > 1000)
        => calc.val = calc.arg

\* C18 (amended): toCents(fromCents(x)) = x for every integer x divisible by
\* 100 with 1000 < x <= 100000; for x divisible by 100 above 100000 the
\* result is x / 100.
C18_RoundTripUpTo100000 ==
    (Returned(<<"fromCents", "toCents">>) /\ calc.arg % 100 = 0 /\ calc.arg > 1000)
        => calc.val = IF calc.arg <= 100000 THEN calc.arg ELSE calc.arg \div 100

\* the round trip has returned for x = 100000, the largest such x it is exact for
C18_Witness ==
    Returned(<<"fromCents", "toCents">>) /\ calc.arg = 100000 /\ calc.val = 100000

\* C19: for an integer n, toCents(n) is n when n > 1000 and 100 n when
\* n <= 1000 (1000 gives 100000, 1001 gives 1001); a value that is no finite
\* number gives 0.
C19_ToCentsOfIntegers ==
    Returned(<<"toCents">>) =>
        /\ (calc.arg.t = "number" /\ calc.arg.h % 100 = 0) =>
               calc.val = IF calc.arg.h \div 100 > 1000
                          THEN calc.arg.h \div 100
                          ELSE 100 * (calc.arg.h \div 100)
        /\ calc.arg = Num(100 * 1000) => calc.val = 100000
        /\ calc.arg = Num(100 * 1001) => calc.val = 1001
        /\ calc.arg.t # "number" => calc.val = 0

\* toCents has returned 100000 for the boundary value 1000
C19_Witness ==
    Returned(<<"toCents">>) /\ calc.arg = Num(100 * 1000) /\ calc.val = 100000

\* C20 (as claimed): getShippingFee returns the fee listed for the region, or
\* the default fee 3500 for any other region identifier: 2000 for "Lagos",
\* 3500 for "Unknown-Region".
C20_AlwaysAFee ==
    Returned(<<"getShippingFee">>) =>
        /\ calc.val = IF calc.arg \in DOMAIN SHIPPING_FEES \ {"default"}
                      THEN Num(100 * SHIPPING_FEES[calc.arg])
                      ELSE Num(100 * 3500)
        /\ calc.arg = "Lagos" => calc.val = Num(100 * 2000)
        /\ calc.arg = "Unknown-Region" => calc.val = Num(100 * 3500)

\* C21 (as claimed): the redirect checkout charges the sum of
\* toCents(price) * quantity plus the region's fee, in minor units, and its
\* order has the cart's supplier share and profit: for the cart [{price
\* 10.00, supplierCost 6.00, quantity 2}] and Abuja, 2000 + 2500 = 4500
\* charged, supplier share 1200, profit 800.
C21_RedirectAmount ==
    \A r \in Requests :
        (r.kind = "paystack" /\ r.called) =>
            /\ r.sent.amount
                  = UsdTotal(r.cart) + getShippingFee(r.customer.state).h \div 100
            /\ (r.cart = CartProfit /\ r.customer.state = "Abuja") =>
                  /\ UsdTotal(r.cart) = 2000
                  /\ r.sent.amount = 4500
                  /\ (r.pc = "done" /\ r.resp = 200) =>
                        \A i \in RowsOf(orders, r.ref) :
                            orders[i].items_json = r.cart.items =>
                                /\ orders[i].supplier_share_cents = 1200
                                /\ orders[i].profit_cents = 800

\* C22 (as claimed): every payment intent is created with the cart total as
\* amount, the profit, total - supplier share >= 0, as application fee, and
\* the supplier's connected account as transfer destination.
C22_IntentSplit ==
    \A r \in Requests :
        (r.kind = "intent" /\ r.called) =>
            /\ r.sent.amount = IntentTotal(r.cart)
            /\ r.sent.split
            /\ r.sent.application_fee_amount
                  = IntentTotal(r.cart) - IntentSupplierTotal(r.cart)
            /\ r.sent.application_fee_amount >= 0
            /\ r.sent.destination = SupplierAccount

\* C22 (amended): every payment intent is created with the cart total as
\* amount; when SUPPLIER_STRIPE_ACCOUNT is configured it carries the profit,
\* total - supplier share >= 0, as application fee and that account as
\* transfer destination; when it is not configured the intent carries no
\* application fee and no transfer destination.
C22_IntentSplitWhenConfigured ==
    \A r \in Requests :
        (r.kind = "intent" /\ r.called) =>
            /\ r.sent.amount = IntentTotal(r.cart)
            /\ IntentTotal(r.cart) - IntentSupplierTotal(r.cart) >= 0
            /\ env.supplierAccount # Null =>
                  /\ r.sent.split
                  /\ r.sent.application_fee_amount
                        = IntentTotal(r.cart) - IntentSupplierTotal(r.cart)
                  /\ r.sent.destination = env.supplierAccount
            /\ env.supplierAccount = Null =>
                  /\ ~r.sent.split
                  /\ r.sent.destination = Null

\* with a supplier account configured, a payment intent was created for the
\* cart of total 20 and supplier share 12 with an application fee of 8
C22_Witness ==
    \E r \in Requests :
        /\ r.kind = "intent" /\ r.pc = "done" /\ r.gw = "ok" /\ r.resp = 200
        /\ env.supplierAccount = SupplierAccount
        /\ r.sent.split /\ r.sent.amount = 20 /\ r.sent.application_fee_amount = 8
        /\ r.sent.destination = SupplierAccount

\* C23 (as claimed): every row of the ledger has at least one of
\* total_cents_usd and total_kobo_ngn equal to zero.
C23_OneTotalIsZero ==
    \A i \in DOMAIN orders :
        orders[i].total_cents_usd = 0 \/ orders[i].total_kobo_ngn = 0

\* C23 (amended): a row created by the naira-priced redirect checkout
\* (part_000) has total_cents_usd = 0; the rows of the checkouts that price
\* the cart in USD (the mobile-money checkout, and the redirect checkout of
\* part_001) are the only ones that may hold two non-zero totals.
C23_RedirectRowHasNoUsdTotal ==
    \A i \in DOMAIN orders :
        (program = "part_000" /\ ~IsOpayRef(orders[i].payment_id))
            => orders[i].total_cents_usd = 0

\* in part_000 a mobile-money checkout of this run was answered 200 and its
\* row carries the USD total 2000 and the naira total it was converted to,
\* beside the row of a redirect checkout with a naira total and no USD total
C23_Witness ==
    /\ \E r \in Requests :
          /\ program = "part_000" /\ r.kind = "opay"
          /\ r.pc = "done" /\ r.resp = 200
          /\ \E i \in RowsOf(orders, r.ref) :
                /\ orders[i].total_cents_usd = 2000
                /\ orders[i].total_kobo_ngn = 3068540
    /\ \E j \in DOMAIN orders :
          /\ ~IsOpayRef(orders[j].payment_id)
          /\ orders[j].total_cents_usd = 0 /\ orders[j].total_kobo_ngn = 252000

\* C24 (as claimed): any two distinct orders, rows of the table or entries
\* of orders.json, have distinct local order ids.
C24_LocalOrderIdUnique ==
    /\ \A i, j \in DOMAIN orders :
          i # j => orders[i].local_order_id # orders[j].local_order_id
    /\ \A i, j \in DOMAIN ordersFile :
          i # j => ordersFile[i].local_order_id # ordersFile[j].local_order_id

\* C25 (as claimed): GET /api/orders returns all orders, newest first: the
\* SELECT yields every row of the table, and of two orders the one whose
\* row was inserted later (the greater id) comes first in the response.
C25_NewestFirst ==
    [][\A r \in Requests : \A r2 \in BagToSet(reqs') :
          /\ (Stepped(r, r2) /\ r.kind = "list" /\ r.pc = "query" /\ ~r.ran) =>
                /\ Len(r2.rows) = Len(orders)
                /\ {r2.rows[k].id : k \in DOMAIN r2.rows}
                      = {orders[i].id : i \in DOMAIN orders}
          /\ (Stepped(r, r2) /\ r.kind = "list" /\ r.pc = "query" /\ r.ran) =>
                /\ Len(r2.listed) = Len(r.rows)
                /\ {r2.listed[k].id : k \in DOMAIN r2.listed}
                      = {r.rows[k].id : k \in DOMAIN r.rows}
                /\ \A k, l \in DOMAIN r2.listed :
                      r2.listed[k].id < r2.listed[l].id => l < k]_vars

\* C26: the UPDATE of a successful poll-and-verify for a reference changes
\* only status and processed_at of the rows with that reference; every other
\* field of them, and every other row, stay as they were, and no row is
\* added or removed.
C26_VerifyFrame ==
    [][\A r \in Requests : \A r2 \in BagToSet(reqs') :
          (Stepped(r, r2) /\ r.kind = "verify" /\ r.pc = "update") =>
              /\ DOMAIN orders' = DOMAIN orders
              /\ \A i \in DOMAIN orders :
                    IF orders[i].payment_id = r.ref
                    THEN orders'[i] = [orders[i] EXCEPT
                                          !.status = orders'[i].status,
                                          !.processed_at = orders'[i].processed_at]
                    ELSE orders'[i] = orders[i]]_vars

\* a poll-and-verify of this run answered 200 and stamped its row, which
\* holds the customer's name, email, phone and address, beside a row of
\* another reference that is pending
C26_Witness ==
    \E r \in Requests :
        /\ r.kind = "verify" /\ r.pc = "done" /\ r.resp = 200 /\ r.gw = "success"
        /\ \E i \in RowsOf(orders, r.ref) :
              /\ orders[i].status = "paid"
              /\ orders[i].processed_at >= CurrentTimestamp(StartTime)
              /\ orders[i].local_order_id # NoLocalOrderId
              /\ orders[i].customer_name = Ada.name
              /\ orders[i].customer_email = Ada.email
              /\ orders[i].customer_phone = Ada.phone
              /\ orders[i].customer_address = Ada.address
        /\ \E j \in DOMAIN orders :
              orders[j].payment_id # r.ref /\ orders[j].status = "pending"

\* C27: the UPDATE of a successful poll-and-verify for a reference that has
\* no row leaves the table as it is.
C27_VerifyUnknownNoOp ==
    [][\A r \in Requests : \A r2 \in BagToSet(reqs') :
          (Stepped(r, r2) /\ r.kind = "verify" /\ r.pc = "update"
              /\ RowsOf(orders, r.ref) = {}) =>
              orders' = orders]_vars

\* a poll-and-verify whose gateway call reported success answered 200 and
\* the table has no row of its reference
C27_Witness ==
    \E r \in Requests :
        /\ r.kind = "verify" /\ r.pc = "done" /\ r.resp = 200 /\ r.gw = "success"
        /\ RowsOf(orders, r.ref) = {}

\* C28 (as claimed): when poll-and-verify answers with success for a
\* reference, the ledger then holds a paid row of that reference.
C28_SuccessMeansPaidRow ==
    [][\A r \in Requests : \A r2 \in BagToSet(reqs') :
          (Stepped(r, r2) /\ r.kind \in {"verify", "shipCallback"}
              /\ r2.pc = "done" /\ r2.resp = 200) =>
              \E i \in RowsOf(orders', r.ref) : orders'[i].status = "paid"]_vars

\* C29 (as claimed): any two mobile-money checkouts that answered 200 carry
\* distinct references, and each has a row of its reference whose items and
\* totals are those of its own cart.
C29_OpayOwnRow ==
    \A r \in Requests :
        (r.kind = "opay" /\ r.pc = "done" /\ r.resp = 200) =>
            /\ CopiesIn(r, reqs) = 1
            /\ \A r2 \in Requests :
                  (r2 # r /\ r2.kind = "opay" /\ r2.pc = "done" /\ r2.resp = 200)
                      => r2.ref # r.ref
            /\ \E i \in RowsOf(orders, r.ref) :
                  /\ orders[i].items_json = r.cart.items
                  /\ orders[i].total_cents_usd = UsdTotal(r.cart)
                  /\ orders[i].total_kobo_ngn = TotalKobo(UsdTotal(r.cart), r.rate)

\* C30 (as claimed): the local order id a createDraftOrder call returns is
\* the local_order_id of the row of its payment reference, also when the
\* INSERT was ignored.
C30_ReturnedLocalOrderId ==
    [][\A r \in Requests : \A r2 \in BagToSet(reqs') :
          (Stepped(r, r2) /\ r.kind \in DraftKinds /\ r.pc = "insert" /\ r.ran) =>
              /\ RowsOf(orders', r.ref) # {}
              /\ \A i \in RowsOf(orders', r.ref) :
                    orders'[i].local_order_id = r.lid]_vars

\* C31: when the exchange-rate lookup of a mobile-money checkout fails, the
\* checkout answers 500, has made no request to the payment gateway, has
\* taken no reference, and the step leaves the ledger as it was.
C31_RateFailureStops ==
    [][\A r \in Requests : \A r2 \in BagToSet(reqs') :
          (Stepped(r, r2) /\ r.kind = "opay" /\ r.pc = "rate" /\ r2.rate = 0) =>
              /\ r2.pc = "done" /\ r2.resp = 500
              /\ ~r2.called /\ r2.sent = NoParams
              /\ r2.ref = NoRef
              /\ orders' = orders]_vars

\* a mobile-money checkout with a valid cart was answered 500 without a
\* gateway call, a reference or a rate: its rate lookup failed
C31_Witness ==
    \E r \in Requests :
        /\ r.kind = "opay" /\ r.pc = "done" /\ r.resp = 500
        /\ ~CartRejected(r.cart)
        /\ r.rate = 0 /\ ~r.called /\ r.ref = NoRef
        /\ RowsOf(orders, OpayRef(now)) = {}

\* the place-order requests of a bag that were answered with success
PlaceSucceeded(bag) ==
    {r \in BagToSet(bag) : r.kind = "place" /\ r.pc = "done" /\ r.resp = 200}

\* the entries of orders.json recorded for request r
EntriesOf(file, r) ==
    {i \in DOMAIN file :
        /\ file[i].payment_intent = r.ref
        /\ file[i].payload.items = SupplierItems(r.cart)
        /\ file[i].customer = r.customer}

\* C32: no recorded order is lost: every step leaves orders.json as it was
\* or with one entry appended, and after it the file holds an entry for
\* every place-order request that was answered with success, n entries for
\* n such requests.
C32_NoOrderLost ==
    [][/\ \/ ordersFile' = ordersFile
          \/ /\ Len(ordersFile') = Len(ordersFile) + 1
             /\ SubSeq(ordersFile', 1, Len(ordersFile)) = ordersFile
       /\ \A r2 \in PlaceSucceeded(reqs') :
             /\ r2.gw = "succeeded"
             /\ Cardinality(EntriesOf(ordersFile', r2)) >= CopiesIn(r2, reqs')
       /\ Len(ordersFile')
             >= BagCardinality([r2 \in PlaceSucceeded(reqs') |-> CopiesIn(r2, reqs')])]_vars

\* two place-order requests were answered with success, their orders saved
\* in the same millisecond, and orders.json holds both
C32_Witness ==
    /\ BagCardinality([r \in PlaceSucceeded(reqs) |-> CopiesIn(r, reqs)]) = 2
    /\ Len(ordersFile) = 2
    /\ ordersFile[1].created_at = ordersFile[2].created_at
    /\ \A r \in PlaceSucceeded(reqs) : EntriesOf(ordersFile, r) # {}

=============================================================================
